---- MODULE Spec2Model ----
(***************************************************************************)
(* Dialogue state machine of the chat UI (App.jsx): the ChatInterface      *)
(* component's React state, the operation picker, the widgets rendered     *)
(* from the message log, and the chat requests in flight.                  *)
(*                                                                         *)
(* A nullable JavaScript value is a sequence of length at most one:        *)
(* NULL is null, Some(x) is the value x.                                   *)
(*                                                                         *)
(* Spec is the dialogue: what a control submits is any text.  WidgetSpec   *)
(* follows one mounted control of any kind with its local state and its    *)
(* event handlers, through the round trips of its submissions.             *)
(***************************************************************************)
EXTENDS Integers, Sequences, FiniteSets, TLC

VARIABLES
    messages,                    \* useState([]), line 351
    isAssistantTyping,           \* line 352
    currentInteractionDisabled,  \* line 353
    availableOperations,         \* line 354
    fetchError,                  \* line 355
    currentApiOperation,         \* line 356
    opsFetch,                    \* position of the fetchOps effect: "pending" | "done"
    inflight,                    \* bodies of the chat requests awaiting their reply
    backendResponse,             \* how the last resolved handleUserInput call ended
    mounted,                     \* the component tree is rendered (no render threw)
    \* local state of the widget control that is followed (WidgetSpec)
    fieldValue,                  \* `value`, lines 61, 108, 153, 180: the text of the input
    selectedValue,               \* ChatDropdown, line 88
    isChecked,                   \* ChatCheckbox, line 134
    isValidJson,                 \* ChatJsonInput, line 181
    selectedDate,                \* ChatDateTimePicker, line 203
    inputValue,                  \* ChatTagsInput, line 250
    tags,                        \* ChatTagsInput, line 251
    alertCalls                   \* the alert() calls of the last handler that ran

\* the state of ChatInterface
dialogueVars == <<messages, isAssistantTyping, currentInteractionDisabled,
                  availableOperations, fetchError, currentApiOperation, opsFetch,
                  inflight, backendResponse, mounted>>

\* the state of the followed control
controlVars == <<fieldValue, selectedValue, isChecked, isValidJson, selectedDate,
                 inputValue, tags, alertCalls>>

vars == <<messages, isAssistantTyping, currentInteractionDisabled,
          availableOperations, fetchError, currentApiOperation, opsFetch,
          inflight, backendResponse, mounted,
          fieldValue, selectedValue, isChecked, isValidJson, selectedDate,
          inputValue, tags, alertCalls>>

----------------------------------------------------------------------------
(* Bounds of the model *)

\* longest message log explored
MaxMessages == 6
\* most chat requests the model lets be outstanding at once
MaxInFlight == 2

----------------------------------------------------------------------------
(* Values *)

NULL == <<>>
Some(x) == <<x>>

Range(s) == {s[i] : i \in 1..Len(s)}

\* ui_component descriptors the backend may send
TextWidget == [type |-> "text_input", parameter_name |-> "name"]
SliderWidget == [type |-> "slider", parameter_name |-> "level"]

\* message contents: what addMessage is given as `content`
StringContent(s) == [kind |-> "string", prompt |-> Some(s), ui_component |-> NULL]
ObjectContent(p, w) == [kind |-> "object", prompt |-> p, ui_component |-> w]
\* a payload that is null, and one that is missing (undefined)
NullContent == [kind |-> "null", prompt |-> NULL, ui_component |-> NULL]
UndefinedContent == [kind |-> "undefined", prompt |-> NULL, ui_component |-> NULL]

\* instruction payloads (backendResponse.data) the backend may send
Instructions ==
    { ObjectContent(Some("What is the name?"), Some(TextWidget)),
      ObjectContent(Some("Level?"), Some(SliderWidget)),
      ObjectContent(NULL, Some(SliderWidget)),
      ObjectContent(Some("Working on it"), NULL),
      ObjectContent(NULL, NULL),
      NullContent,
      UndefinedContent }

\* the operation catalogs the Operations Endpoint may return
Op1 == [id |-> "op1", method |-> "post", path |-> "/pets", summary |-> "Create Pet"]
Op2 == [id |-> "op2", method |-> "get", path |-> "/pets", summary |-> "List Pets"]
OpNoPath == [id |-> "op3", method |-> "put", path |-> "", summary |-> "Broken"]
OpNoMethod == [id |-> "op4", method |-> "", path |-> "/toys", summary |-> "Vague"]
Catalogs == { <<>>, <<Op1, Op2, OpNoPath, OpNoMethod>> }

\* values a user can type into a text input before sending it
TextValues == {"", "Rex"}

USER_ID == "ui_user_enh"

----------------------------------------------------------------------------
(* fetchApi: an HTTP exchange either throws an Error or returns the parsed  *)
(* body (null for 204).                                                     *)

\* the detail field of an error body: absent, a string, or an array of
\* {loc, msg} entries (loc may be missing)
NoDetail == [kind |-> "none", text |-> "", entries |-> <<>>]
StringDetail(s) == [kind |-> "string", text |-> s, entries |-> <<>>]
ArrayDetail(es) == [kind |-> "array", text |-> "", entries |-> es]
Entry(loc, msg) == [loc |-> loc, msg |-> msg]

\* response bodies of the Chat Endpoint; detail is the error detail, if any
Body(t, d, txt, det) == [type |-> t, data |-> d, text |-> txt, detail |-> det]
NoData == ObjectContent(NULL, NULL)

PriorityEntry == Entry(Some(<<"body", "priority">>), "must be >=1")
NameEntry == Entry(Some(<<"body", "name">>), "field required")

HttpOk(status, body) == [net |-> "ok", status |-> status, json |-> TRUE, body |-> body]
HttpNoJson(status) ==
    [net |-> "ok", status |-> status, json |-> FALSE, body |-> Body("", NoData, "", NoDetail)]
NetworkFailure ==
    [net |-> "failed", status |-> 0, json |-> FALSE, body |-> Body("", NoData, "", NoDetail)]

\* what the Chat Endpoint (or the transport) may answer to one request
ChatResponses ==
    { HttpOk(200, Body("ui_instruction", d, "", NoDetail)) : d \in Instructions }
    \cup { HttpOk(200, Body("final_message", NoData, "Pet created", NoDetail)),
           HttpOk(200, Body("error_message", NoData, "Pet rejected", NoDetail)),
           HttpOk(200, Body("progress", NoData, "", NoDetail)),
           HttpOk(422, Body("", NoData, "", StringDetail("priority must be >=1"))),
           HttpOk(422, Body("", NoData, "", ArrayDetail(<<PriorityEntry>>))),
           HttpOk(422, Body("", NoData, "", ArrayDetail(<<PriorityEntry, NameEntry>>))),
           HttpNoJson(500),
           HttpNoJson(204),
           NetworkFailure }

Throw(msg) == [thrown |-> TRUE, message |-> msg, value |-> NULL]
Return(v) == [thrown |-> FALSE, message |-> "", value |-> v]

ResponseOk(r) == r.status >= 200 /\ r.status <= 299

RECURSIVE Join(_, _)
\* Array.prototype.join
Join(strings, separator) ==
    IF Len(strings) = 0 THEN ""
    ELSE IF Len(strings) = 1 THEN strings[1]
    ELSE strings[1] \o separator \o Join(Tail(strings), separator)

\* `${err.loc?.join('.')}: ${err.msg}`
EntryText(err) ==
    (IF err.loc = NULL THEN "undefined" ELSE Join(err.loc[1], ".")) \o ": " \o err.msg

\* variant: the Array.isArray branch is missing, the array is used as the message
ErrorDetailOf_NoArrayBranch(r) ==
    LET errorDetail == "API Error: " \o ToString(r.status)
    IN  IF ~r.json THEN errorDetail
        ELSE IF r.body.detail.kind = "string" /\ r.body.detail.text # ""
             THEN r.body.detail.text
        ELSE IF r.body.detail.kind = "array" THEN "[object Object]"
        ELSE errorDetail

\* the message of the Error thrown for a non-2xx response
ErrorDetailOf(r) ==
    LET errorDetail == "API Error: " \o ToString(r.status)
    IN  IF ~r.json THEN errorDetail
        ELSE IF r.body.detail.kind = "string" /\ r.body.detail.text # ""
             THEN r.body.detail.text
        ELSE IF r.body.detail.kind = "array"
             THEN Join([k \in 1..Len(r.body.detail.entries) |->
                            EntryText(r.body.detail.entries[k])], "; ")
        ELSE errorDetail

fetchApi(r) ==
    IF r.net = "failed" THEN Throw("Failed to fetch")
    ELSE IF ~ResponseOk(r) THEN Throw(ErrorDetailOf(r))
    ELSE IF r.status = 204 THEN Return(NULL)
    ELSE IF r.json THEN Return(Some(r.body))
    ELSE Throw("Unexpected end of JSON input")

----------------------------------------------------------------------------
(* Rendering: what the message list shows for one message *)

KnownWidgetTypes ==
    { "text_input", "dropdown", "number_input", "checkbox", "date_picker",
      "json_input", "datetime_picker", "tags_input" }

Truthy(nullable) == nullable # NULL /\ nullable[1] # ""

\* variant: the controls ignore the lock
PropsDisabled_Never == FALSE

\* props.disabled handed to every widget control
PropsDisabled == currentInteractionDisabled

\* a rendered bubble: marker is the fixed red text of a node without a control
Node(n, p, w, d) ==
    [node |-> n, prompt |-> p, input |-> w, disabled |-> d, marker |-> NULL]

\* the default case of the switch: (Unsupported UI type: {componentType})
UnsupportedMarker(componentType) == "(Unsupported UI type: " \o componentType \o ")"

\* variant: the switch has no default case, inputElement stays null
renderDynamicComponent_NoDefault(instructionContent) ==
    IF instructionContent.kind = "null"
       \/ (~Truthy(instructionContent.prompt) /\ instructionContent.ui_component = NULL)
    THEN [Node("invalid", NULL, NULL, TRUE) EXCEPT !.marker = Some("[Invalid Message Format]")]
    ELSE LET prompt == instructionContent.prompt
             ui_component == instructionContent.ui_component
             promptElement == IF Truthy(prompt) THEN prompt ELSE NULL
         IN  IF ui_component = NULL THEN Node("prompt", promptElement, NULL, TRUE)
             ELSE IF ui_component[1].type \in KnownWidgetTypes
                  THEN Node("widget", promptElement, ui_component, PropsDisabled)
                  ELSE Node("prompt", promptElement, NULL, TRUE)

renderDynamicComponent(instructionContent) ==
    IF instructionContent.kind = "null"
       \/ (~Truthy(instructionContent.prompt) /\ instructionContent.ui_component = NULL)
    THEN [Node("invalid", NULL, NULL, TRUE) EXCEPT !.marker = Some("[Invalid Message Format]")]
    ELSE LET prompt == instructionContent.prompt
             ui_component == instructionContent.ui_component
             promptElement == IF Truthy(prompt) THEN prompt ELSE NULL
         IN  IF ui_component = NULL THEN Node("prompt", promptElement, NULL, TRUE)
             ELSE IF ui_component[1].type \in KnownWidgetTypes
                  THEN Node("widget", promptElement, ui_component, PropsDisabled)
                  ELSE [Node("unsupported", promptElement, NULL, TRUE)
                            EXCEPT !.marker = Some(UnsupportedMarker(ui_component[1].type))]

\* the bubble of one message of the log
RenderMessage(msg) ==
    IF msg.sender = "assistant" /\ msg.content.kind \in {"object", "null"}
    THEN renderDynamicComponent(msg.content)
    ELSE Node("text", msg.content.prompt, NULL, TRUE)

\* message i shows a control that accepts interaction
WidgetInteractive(i) ==
    /\ mounted
    /\ RenderMessage(messages[i]).node = "widget"
    /\ ~RenderMessage(messages[i]).disabled

\* variant: the disabled attribute leaves out !!currentApiOperation
PickerDisabled_IgnoresBound ==
    \/ isAssistantTyping \/ currentInteractionDisabled
    \/ Len(availableOperations) = 0

\* variant: the disabled attribute leaves out operations.length === 0
PickerDisabled_IgnoresCatalog ==
    \/ isAssistantTyping \/ currentInteractionDisabled \/ currentApiOperation # NULL

\* OperationSelector: the select element's disabled attribute
PickerDisabled ==
    \/ isAssistantTyping \/ currentInteractionDisabled \/ currentApiOperation # NULL
    \/ Len(availableOperations) = 0

\* variant: the entry is looked up by path alone
selectedOpId_PathOnly ==
    IF currentApiOperation = NULL THEN ""
    ELSE LET found == { i \in 1..Len(availableOperations) :
                          availableOperations[i].path = currentApiOperation[1].path }
         IN  IF found = {} THEN ""
             ELSE availableOperations[CHOOSE i \in found : \A j \in found : i <= j].id

\* OperationSelector: the option the select element displays ("" is the placeholder)
selectedOpId ==
    IF currentApiOperation = NULL THEN ""
    ELSE LET found == { i \in 1..Len(availableOperations) :
                          /\ availableOperations[i].path = currentApiOperation[1].path
                          /\ availableOperations[i].method = currentApiOperation[1].method }
         IN  IF found = {} THEN ""
             ELSE availableOperations[CHOOSE i \in found : \A j \in found : i <= j].id

----------------------------------------------------------------------------
(* Initial state: ChatInterface mounted, its effects run: the catalog fetch  *)
(* is on its way and the greeting has been appended.                         *)

\* variant: the new message is put in front of the log
addMessage_Prepend(log, sender, content) ==
    <<[sender |-> sender, content |-> content]>> \o log

addMessage(log, sender, content) == Append(log, [sender |-> sender, content |-> content])

Greeting == ObjectContent(Some("Hello! Please select an API operation above to begin."), NULL)

\* no control is followed: the local state of the controls is left out
NoControl ==
    /\ fieldValue = <<>>
    /\ selectedValue = <<>>
    /\ isChecked = FALSE
    /\ isValidJson = TRUE
    /\ selectedDate = NULL
    /\ inputValue = <<>>
    /\ tags = <<>>
    /\ alertCalls = <<>>

Init ==
    /\ NoControl
    /\ messages = addMessage(<<>>, "assistant", Greeting)
    /\ isAssistantTyping = FALSE
    /\ currentInteractionDisabled = FALSE
    /\ availableOperations = <<>>
    /\ fetchError = NULL
    /\ currentApiOperation = NULL
    /\ opsFetch = "pending"
    /\ inflight = <<>>
    /\ backendResponse = "none"
    /\ mounted = TRUE

----------------------------------------------------------------------------
(* handleUserInput: the synchronous part, up to the await of fetchApi *)

IntentInput(op) ==
    [type |-> "intent", value |-> op.summary,
     apiDetails |-> Some([path |-> op.path, method |-> op.method]),
     parameterName |-> NULL]

ParameterInput(parameterName, value) ==
    [type |-> "parameter", value |-> value, apiDetails |-> NULL,
     parameterName |-> Some(parameterName)]

\* variant: only the method is looked at
Unmapped_MethodOnly(input) ==
    \/ input.apiDetails = NULL
    \/ input.apiDetails[1].method = ""

\* the intent carries no resolvable path or method
Unmapped(input) ==
    \/ input.apiDetails = NULL
    \/ input.apiDetails[1].path = ""
    \/ input.apiDetails[1].method = ""

\* variant: target path and method swapped in the intent body
requestBody_SwappedTarget(input) ==
    IF input.type = "intent"
    THEN [user_id |-> USER_ID, type |-> "intent",
          intent_string |-> Some(input.value),
          target_api_path |-> Some(input.apiDetails[1].method),
          target_api_method |-> Some(input.apiDetails[1].path),
          parameter_name |-> NULL, parameter_value |-> NULL]
    ELSE [user_id |-> USER_ID, type |-> "parameter_response",
          intent_string |-> NULL, target_api_path |-> NULL, target_api_method |-> NULL,
          parameter_name |-> input.parameterName,
          parameter_value |-> Some(input.value)]

\* variant: parameter name and value swapped in the parameter body
requestBody_SwappedParameter(input) ==
    IF input.type = "intent"
    THEN [user_id |-> USER_ID, type |-> "intent",
          intent_string |-> Some(input.value),
          target_api_path |-> Some(input.apiDetails[1].path),
          target_api_method |-> Some(input.apiDetails[1].method),
          parameter_name |-> NULL, parameter_value |-> NULL]
    ELSE [user_id |-> USER_ID, type |-> "parameter_response",
          intent_string |-> NULL, target_api_path |-> NULL, target_api_method |-> NULL,
          parameter_name |-> Some(input.value),
          parameter_value |-> input.parameterName]

requestBody(input) ==
    IF input.type = "intent"
    THEN [user_id |-> USER_ID, type |-> "intent",
          intent_string |-> Some(input.value),
          target_api_path |-> Some(input.apiDetails[1].path),
          target_api_method |-> Some(input.apiDetails[1].method),
          parameter_name |-> NULL, parameter_value |-> NULL]
    ELSE [user_id |-> USER_ID, type |-> "parameter_response",
          intent_string |-> NULL, target_api_path |-> NULL, target_api_method |-> NULL,
          parameter_name |-> input.parameterName,
          parameter_value |-> Some(input.value)]

\* variant: only an intent locks the input
DisabledWhileSending_IntentOnly(input) == input.type = "intent"

\* variant: only a parameter submission locks the input
DisabledWhileSending_ParameterOnly(input) == input.type = "parameter"

\* the value handleUserInput gives currentInteractionDisabled before it sends
DisabledWhileSending(input) == TRUE

UnmappedPrompt(value) ==
    "Sorry, I couldn't map '" \o value
        \o "' to a known API action. Please select from the list."

\* room left in the explored log for the messages this call and the calls
\* already outstanding may still append
RoomFor(n) ==
    /\ Len(messages) + Len(inflight) + n <= MaxMessages
    /\ Len(inflight) < MaxInFlight

handleUserInput(input) ==
    LET withUser == IF input.type = "intent"
                    THEN addMessage(messages, "user", StringContent(input.value))
                    ELSE messages
    IN  IF input.type = "intent" /\ Unmapped(input)
        THEN /\ messages' = addMessage(withUser, "assistant",
                                ObjectContent(Some(UnmappedPrompt(input.value)), NULL))
             /\ isAssistantTyping' = FALSE
             /\ currentInteractionDisabled' = FALSE
             /\ currentApiOperation' = NULL
             /\ fetchError' = NULL
             /\ UNCHANGED <<availableOperations, opsFetch, inflight,
                            backendResponse, mounted>>
        ELSE /\ messages' = withUser
             /\ currentApiOperation' =
                    IF input.type = "intent" THEN input.apiDetails
                    ELSE currentApiOperation
             /\ isAssistantTyping' = TRUE
             /\ currentInteractionDisabled' = DisabledWhileSending(input)
             /\ fetchError' = NULL
             /\ inflight' = Append(inflight, requestBody(input))
             /\ backendResponse' = "pending"
             /\ UNCHANGED <<availableOperations, opsFetch, mounted>>

\* OperationSelector.handleChange: the user picks an entry of the select element
SelectOperation(op) ==
    /\ mounted
    /\ ~PickerDisabled
    /\ op.id # selectedOpId
    /\ RoomFor(2)
    /\ handleUserInput(IntentInput(op))

\* handleDynamicInputSubmit, called by the control of message i
WidgetSubmit(i, value) ==
    /\ WidgetInteractive(i)
    /\ RoomFor(1)
    /\ handleUserInput(ParameterInput(RenderMessage(messages[i]).input[1].parameter_name,
                                      value))

----------------------------------------------------------------------------
(* handleUserInput: the continuation after the await (try / catch / finally) *)

\* variant: the type is read with optional chaining, a null result falls
\* through to the empty else
ResponseBranch_NullFallsThrough(res) ==
    IF res.thrown THEN "catch"
    ELSE IF res.value = NULL THEN "unhandled"
    ELSE IF res.value[1].type = "ui_instruction" THEN "ui_instruction"
    ELSE IF res.value[1].type \in {"final_message", "error_message"} THEN "terminal"
    ELSE "unhandled"

\* which branch of the try block, or the catch block, handles the outcome
ResponseBranch(res) ==
    IF res.thrown THEN "catch"
    ELSE IF res.value = NULL THEN "catch"        \* null.type throws a TypeError
    ELSE IF res.value[1].type = "ui_instruction" THEN "ui_instruction"
    ELSE IF res.value[1].type \in {"final_message", "error_message"} THEN "terminal"
    ELSE "unhandled"

ErrorMessage(res) ==
    IF res.thrown THEN res.message
    ELSE "Cannot read properties of null (reading 'type')"

\* the message the branch appends, if any
ReplyOf(res) ==
    LET branch == ResponseBranch(res)
    IN  IF branch = "ui_instruction" THEN Some(res.value[1].data)
        ELSE IF branch = "terminal"
             THEN Some(ObjectContent(Some(res.value[1].text), NULL))
        ELSE IF branch = "catch"
             THEN Some(ObjectContent(Some("Error: " \o ErrorMessage(res)), NULL))
        ELSE NULL

\* variant: the final/error branch forgets to re-enable the input
DisabledAfter_TerminalKeepsLock(branch, current) ==
    IF branch \in {"ui_instruction", "catch"} THEN FALSE ELSE current

\* currentInteractionDisabled after the branch
DisabledAfter(branch, current) ==
    IF branch \in {"ui_instruction", "terminal", "catch"} THEN FALSE ELSE current

\* variant: the final/error branch keeps the operation bound
OperationAfter_TerminalKeeps(branch, current) ==
    IF branch = "catch" THEN NULL ELSE current

\* variant: the catch block keeps the operation bound
OperationAfter_CatchKeeps(branch, current) ==
    IF branch = "terminal" THEN NULL ELSE current

\* variant: every handled branch clears the operation
OperationAfter_InstructionClears(branch, current) ==
    IF branch \in {"ui_instruction", "terminal", "catch"} THEN NULL ELSE current

\* currentApiOperation after the branch
OperationAfter(branch, current) ==
    IF branch \in {"terminal", "catch"} THEN NULL ELSE current

\* how the call ended, for the response r
OutcomeOf(res) ==
    IF res.thrown THEN "thrown"
    ELSE IF res.value = NULL THEN "null"
    ELSE res.value[1].type

RemoveAt(s, i) == SubSeq(s, 1, i - 1) \o SubSeq(s, i + 1, Len(s))

ChatResolve(i, r) ==
    /\ i \in 1..Len(inflight)
    /\ LET res == fetchApi(r)
           branch == ResponseBranch(res)
       IN  /\ messages' = IF ReplyOf(res) = NULL THEN messages
                          ELSE addMessage(messages, "assistant", ReplyOf(res)[1])
           /\ currentInteractionDisabled' = DisabledAfter(branch, currentInteractionDisabled)
           /\ currentApiOperation' = OperationAfter(branch, currentApiOperation)
           /\ isAssistantTyping' = FALSE
           /\ backendResponse' = OutcomeOf(res)
    /\ inflight' = RemoveAt(inflight, i)
    /\ UNCHANGED <<availableOperations, fetchError, opsFetch, mounted>>

----------------------------------------------------------------------------
(* The fetchOps effect: the catalog request resolves *)

OpsResponses ==
    { [net |-> "ok", status |-> 200, json |-> TRUE, body |-> c] : c \in Catalogs }
    \cup { HttpNoJson(204), HttpNoJson(500), NetworkFailure }

\* the message list's `fetchError && !isLoading`: isLoading is not declared, so
\* evaluating the right operand throws a ReferenceError during render
RenderThrows(error) == Truthy(error)

FetchOpsResolve(r) ==
    /\ opsFetch = "pending"
    /\ opsFetch' = "done"
    /\ LET res == fetchApi(r)
       IN  IF res.thrown
           THEN LET errorMsg == "Failed to load available API operations: " \o res.message
                IN  /\ fetchError' = Some(errorMsg)
                    /\ messages' = addMessage(messages, "assistant",
                                              ObjectContent(Some(errorMsg), NULL))
                    /\ mounted' = ~RenderThrows(Some(errorMsg))
                    /\ UNCHANGED availableOperations
           ELSE /\ availableOperations' = IF res.value = NULL THEN <<>> ELSE res.value[1]
                /\ UNCHANGED <<fetchError, messages, mounted>>
    /\ UNCHANGED <<isAssistantTyping, currentInteractionDisabled, currentApiOperation,
                   inflight, backendResponse>>

----------------------------------------------------------------------------

Next ==
    \/ \E r \in OpsResponses : FetchOpsResolve(r) /\ UNCHANGED controlVars
    \/ \E op \in Range(availableOperations) : SelectOperation(op) /\ UNCHANGED controlVars
    \/ \E i \in 1..Len(messages), value \in TextValues :
            WidgetSubmit(i, value) /\ UNCHANGED controlVars
    \/ \E i \in 1..Len(inflight), r \in ChatResponses :
            ChatResolve(i, r) /\ UNCHANGED controlVars

Spec == Init /\ [][Next]_vars

----------------------------------------------------------------------------
(* The widget controls (lines 60-313).  One control is followed: the one of  *)
(* the first instruction of the log that shows a control.  A JavaScript      *)
(* string is a sequence of characters; a run of characters that no operation *)
(* looks into may stand as one element.  A JavaScript value carries its      *)
(* type: t is what typeof / Array.isArray tell apart.                        *)

Str(s) == [t |-> "string", s |-> s, n |-> 0, items |-> <<>>]
Num(n) == [t |-> "number", s |-> <<>>, n |-> n, items |-> <<>>]
Bool(b) == [t |-> "boolean", s |-> <<>>, n |-> IF b THEN 1 ELSE 0, items |-> <<>>]
Arr(items) == [t |-> "array", s |-> <<>>, n |-> 0, items |-> items]
JsNull == [t |-> "null", s |-> <<>>, n |-> 0, items |-> <<>>]
EmptyObject == [t |-> "object", s |-> <<>>, n |-> 0, items |-> <<>>]

\* !!v
JsTruthy(v) ==
    IF v.t = "string" THEN v.s # <<>>
    ELSE IF v.t \in {"number", "boolean"} THEN v.n # 0
    ELSE v.t # "null"

RECURSIVE TrimStart(_)
TrimStart(s) == IF s # <<>> /\ Head(s) = " " THEN TrimStart(Tail(s)) ELSE s

RECURSIVE TrimEnd(_)
TrimEnd(s) ==
    IF s # <<>> /\ s[Len(s)] = " " THEN TrimEnd(SubSeq(s, 1, Len(s) - 1)) ELSE s

\* String.prototype.trim
Trim(s) == TrimEnd(TrimStart(s))

Digits == <<"0", "1", "2", "3", "4", "5", "6", "7", "8", "9">>
IsDigit(c) == \E d \in 1..Len(Digits) : Digits[d] = c
DigitValue(c) == (CHOOSE d \in 1..Len(Digits) : Digits[d] = c) - 1

RECURSIVE DigitsPrefix(_)
\* the longest run of digits s starts with
DigitsPrefix(s) ==
    IF s # <<>> /\ IsDigit(Head(s)) THEN <<Head(s)>> \o DigitsPrefix(Tail(s)) ELSE <<>>

RECURSIVE DecimalValue(_)
DecimalValue(ds) ==
    IF ds = <<>> THEN 0
    ELSE DecimalValue(SubSeq(ds, 1, Len(ds) - 1)) * Len(Digits) + DigitValue(ds[Len(ds)])

\* parseFloat on unsigned whole numbers: leading white space is skipped, the
\* longest numeric prefix is read, what follows is ignored; NULL is NaN
parseFloat(s) ==
    LET ds == DigitsPrefix(TrimStart(s))
    IN  IF ds = <<>> THEN NULL ELSE Some(DecimalValue(ds))

RECURSIVE NumberToString(_)
NumberToString(n) ==
    IF n < Len(Digits) THEN <<Digits[n + 1]>>
    ELSE NumberToString(n \div Len(Digits)) \o <<Digits[(n % Len(Digits)) + 1]>>

\* String(v) of a string or a number
StringOf(v) == IF v.t = "number" THEN NumberToString(v.n) ELSE v.s

\* JSON.parse on the documents {} [] null, unsigned whole numbers and strings
\* without escapes; NULL is a SyntaxError
JSONparse(text) ==
    LET doc == Trim(text)
    IN  IF doc = <<"{", "}">> THEN Some(EmptyObject)
        ELSE IF doc = <<"[", "]">> THEN Some(Arr(<<>>))
        ELSE IF doc = <<"null">> THEN Some(JsNull)
        ELSE IF doc # <<>> /\ DigitsPrefix(doc) = doc /\ (Len(doc) = 1 \/ doc[1] # "0")
             THEN Some(Num(DecimalValue(doc)))
        ELSE IF /\ Len(doc) >= 2 /\ doc[1] = "\"" /\ doc[Len(doc)] = "\""
                /\ \A k \in 2..(Len(doc) - 1) : doc[k] # "\""
             THEN Some(Str(SubSeq(doc, 2, Len(doc) - 1)))
        ELSE NULL

\* JSON.stringify(v, null, 2) of the defaults the descriptors carry
JSONstringify(v) ==
    IF v.t = "object" THEN <<"{", "}">>
    ELSE IF v.t = "array" /\ v.items = <<>> THEN <<"[", "]">>
    ELSE IF v.t = "null" THEN <<"null">>
    ELSE IF v.t = "number" THEN NumberToString(v.n)
    ELSE <<"\"">> \o v.s \o <<"\"">>

\* a Date holds an instant, in whole minutes since the epoch; NULL is NaN
Date(time) == [time |-> Some(time)]
InvalidDate == [time |-> NULL]

Pad2(n) == IF n < Len(Digits) THEN "0" \o ToString(n) ELSE ToString(n)

\* Date.prototype.toISOString for the instants of January 1970
toISOString(date) ==
    LET time == date.time[1]
    IN  "1970-01-" \o Pad2((time \div (24 * 60)) + 1)
            \o "T" \o Pad2((time % (24 * 60)) \div 60)
            \o ":" \o Pad2(time % 60) \o ":00.000Z"

\* ui_component descriptors: default and item_type are NULL when missing
Widget(type, parameter_name, default, options, item_type) ==
    [type |-> type, parameter_name |-> parameter_name, default |-> default,
     options |-> options, item_type |-> item_type]

Descriptors ==
    { Widget("text_input", "name", NULL, <<>>, NULL),
      Widget("text_input", "name", Some(Str(<<"Rex">>)), <<>>, NULL),
      Widget("dropdown", "species", NULL, << <<"cat">>, <<"dog">> >>, NULL),
      Widget("dropdown", "species", Some(Str(<<"dog">>)), << <<"cat">>, <<"dog">> >>, NULL),
      Widget("dropdown", "species", NULL, << <<>>, <<"cat">> >>, NULL),
      Widget("dropdown", "species", NULL, << <<"cat">> >>, NULL),
      Widget("number_input", "age", NULL, <<>>, NULL),
      Widget("number_input", "age", Some(Num(12)), <<>>, NULL),
      Widget("number_input", "age", Some(Str(<<"a">>)), <<>>, NULL),
      Widget("checkbox", "vaccinated", NULL, <<>>, NULL),
      Widget("checkbox", "vaccinated", Some(Bool(TRUE)), <<>>, NULL),
      Widget("date_picker", "born", NULL, <<>>, NULL),
      Widget("date_picker", "born", Some(Str(<<"2024-01-02">>)), <<>>, NULL),
      Widget("json_input", "extra", NULL, <<>>, NULL),
      Widget("json_input", "extra", Some(EmptyObject), <<>>, NULL),
      Widget("datetime_picker", "visit", NULL, <<>>, NULL),
      Widget("tags_input", "labels", NULL, <<>>, NULL),
      Widget("tags_input", "labels", Some(Arr(<<Str(<<"a">>)>>)), <<>>, Some("string")),
      Widget("tags_input", "scores", NULL, <<>>, Some("integer")),
      Widget("tags_input", "scores", Some(Arr(<<Num(12), Num(7)>>)), <<>>, Some("number")) }

\* what the user can leave in an input element (e.target.value)
TextInputTexts == { <<>>, <<"Rex">> }
NumberInputTexts == { <<>>, <<"1", "2">>, <<"7">> }
DateInputTexts == { <<>>, <<"2024-01-02">> }
JsonInputTexts == { <<>>, <<" ">>, <<"{", "}">>, <<"{">>, <<"1", "2">>, <<"\"", "a", "\"">> }
TagInputTexts == { <<>>, <<" ">>, <<"1", "2">>, <<" ", "1", "2">>, <<"7">>, <<"a">>, <<"1", "2", "a">> }

\* what react-datepicker hands to onChange: null when cleared, or a Date
PickedDates == { NULL, Some(InvalidDate), Some(Date(0)), Some(Date(24 * 60 + 65)) }

\* the keys of a keydown event: the delimiters, Backspace, and any other key
Keys == { "Enter", ",", " ", "Backspace", "x" }

\* position in the log of the instruction whose control is followed
ControlIndex ==
    CHOOSE i \in 1..Len(messages) :
        /\ RenderMessage(messages[i]).node = "widget"
        /\ \A j \in 1..(i - 1) : RenderMessage(messages[j]).node # "widget"

\* props.componentDetails of the followed control
componentDetails == messages[ControlIndex].content.ui_component[1]

\* the component that renderDynamicComponent's switch mounts for the descriptor
Mounts(type) == mounted /\ componentDetails.type = type

\* the replies that end the round trip of a submission of the followed control
ControlReplies ==
    { HttpOk(200, Body("ui_instruction", ObjectContent(Some("Working on it"), NULL), "", NoDetail)),
      HttpOk(200, Body("final_message", NoData, "Pet created", NoDetail)) }

\* the useState initialisers of the component mounted for descriptor d
InitialState(d) ==
    /\ fieldValue =
          IF d.type \in {"text_input", "date_picker"}
          THEN (IF d.default # NULL /\ JsTruthy(d.default[1]) THEN d.default[1].s ELSE <<>>)
          ELSE IF d.type = "number_input"
          THEN (IF d.default # NULL THEN StringOf(d.default[1]) ELSE <<>>)
          ELSE IF d.type = "json_input"
          THEN (IF d.default # NULL THEN JSONstringify(d.default[1]) ELSE <<>>)
          ELSE <<>>
    /\ selectedValue =
          IF d.type # "dropdown" THEN <<>>
          ELSE IF d.default # NULL /\ JsTruthy(d.default[1]) THEN d.default[1].s
          ELSE IF d.options # <<>> THEN d.options[1]
          ELSE <<>>
    /\ isChecked = (d.type = "checkbox" /\ d.default # NULL /\ JsTruthy(d.default[1]))
    /\ isValidJson = TRUE
    /\ selectedDate = NULL
    /\ inputValue = <<>>
    /\ tags = IF d.type = "tags_input" /\ d.default # NULL /\ d.default[1].t = "array"
              THEN d.default[1].items ELSE <<>>
    /\ alertCalls = <<>>

\* the dialogue after an operation was selected and the backend answered with
\* an instruction carrying descriptor d: the control is mounted and unlocked
WidgetInit ==
    \E d \in Descriptors :
        /\ messages = addMessage(addMessage(addMessage(<<>>, "assistant", Greeting),
                                            "user", StringContent(Op1.summary)),
                                 "assistant", ObjectContent(Some("Value?"), Some(d)))
        /\ isAssistantTyping = FALSE
        /\ currentInteractionDisabled = FALSE
        /\ availableOperations = <<Op1, Op2, OpNoPath, OpNoMethod>>
        /\ fetchError = NULL
        /\ currentApiOperation = IntentInput(Op1).apiDetails
        /\ opsFetch = "done"
        /\ inflight = <<>>
        /\ backendResponse = "ui_instruction"
        /\ mounted = TRUE
        /\ InitialState(d)

----------------------------------------------------------------------------
(* The handlers of the controls.  props.onSubmit is handleDynamicInputSubmit, *)
(* so a handler that calls it runs handleUserInput with a parameter input.    *)

\* props.onSubmit(parameterName, submitted)
onSubmit(parameterName, submitted) ==
    /\ RoomFor(1)
    /\ handleUserInput(ParameterInput(parameterName, submitted))

\* the handler returns without calling props.onSubmit
NoSubmit == UNCHANGED dialogueVars

Alert(text, token) == [text |-> text, token |-> token]

\* ChatTextInput: onChange of the input element
TextInputChange(text) ==
    /\ Mounts("text_input")
    /\ ~PropsDisabled
    /\ fieldValue' = text
    /\ alertCalls' = <<>>
    /\ NoSubmit
    /\ UNCHANGED <<selectedValue, isChecked, isValidJson, selectedDate, inputValue, tags>>

\* ChatTextInput.handleSubmit
TextInputSubmit ==
    /\ Mounts("text_input")
    /\ ~PropsDisabled
    /\ onSubmit(componentDetails.parameter_name, Str(fieldValue))
    /\ alertCalls' = <<>>
    /\ UNCHANGED <<fieldValue, selectedValue, isChecked, isValidJson, selectedDate,
                   inputValue, tags>>

\* the option the select element of ChatDropdown shows: the one whose value is
\* selectedValue, or the first one when there is none
DisplayedOption ==
    IF \E k \in 1..Len(componentDetails.options) :
            componentDetails.options[k] = selectedValue
    THEN Some(selectedValue)
    ELSE IF componentDetails.options # <<>> THEN Some(componentDetails.options[1])
    ELSE NULL

\* variant: the guard on the selected value is missing
DropdownSubmits_Always(option) == TRUE

\* ChatDropdown.handleChange: if (value)
DropdownSubmits(option) == option # <<>>

\* ChatDropdown.handleChange: the user picks another option of the select element
DropdownChange(option) ==
    /\ Mounts("dropdown")
    /\ ~PropsDisabled
    /\ Some(option) # DisplayedOption
    /\ selectedValue' = option
    /\ alertCalls' = <<>>
    /\ IF DropdownSubmits(option)
       THEN onSubmit(componentDetails.parameter_name, Str(option))
       ELSE NoSubmit
    /\ UNCHANGED <<fieldValue, isChecked, isValidJson, selectedDate, inputValue, tags>>

\* ChatNumberInput: onChange of the input element
NumberInputChange(text) ==
    /\ Mounts("number_input")
    /\ ~PropsDisabled
    /\ fieldValue' = text
    /\ alertCalls' = <<>>
    /\ NoSubmit
    /\ UNCHANGED <<selectedValue, isChecked, isValidJson, selectedDate, inputValue, tags>>

\* variant: a text that is not a number is not passed on
NumberSubmitted_NaNAsNull(text) ==
    LET numValue == parseFloat(text)
    IN  IF numValue = NULL THEN JsNull ELSE Num(numValue[1])

\* ChatNumberInput.handleSubmit: isNaN(numValue) ? value : numValue
NumberSubmitted(text) ==
    LET numValue == parseFloat(text)
    IN  IF numValue = NULL THEN Str(text) ELSE Num(numValue[1])

\* ChatNumberInput.handleSubmit
NumberInputSubmit ==
    /\ Mounts("number_input")
    /\ ~PropsDisabled
    /\ onSubmit(componentDetails.parameter_name, NumberSubmitted(fieldValue))
    /\ alertCalls' = <<>>
    /\ UNCHANGED <<fieldValue, selectedValue, isChecked, isValidJson, selectedDate,
                   inputValue, tags>>

\* ChatCheckbox.handleChange: the user toggles the box
CheckboxChange ==
    /\ Mounts("checkbox")
    /\ ~PropsDisabled
    /\ LET newValue == ~isChecked
       IN  /\ isChecked' = newValue
           /\ onSubmit(componentDetails.parameter_name, Bool(newValue))
    /\ alertCalls' = <<>>
    /\ UNCHANGED <<fieldValue, selectedValue, isValidJson, selectedDate, inputValue, tags>>

\* ChatDatePickerNative: onChange of the input element
DatePickerChange(text) ==
    /\ Mounts("date_picker")
    /\ ~PropsDisabled
    /\ fieldValue' = text
    /\ alertCalls' = <<>>
    /\ NoSubmit
    /\ UNCHANGED <<selectedValue, isChecked, isValidJson, selectedDate, inputValue, tags>>

\* ChatDatePickerNative: the disabled attribute of the send button
SendDateDisabled == PropsDisabled \/ fieldValue = <<>>

\* ChatDatePickerNative.handleSubmit
DatePickerSubmit ==
    /\ Mounts("date_picker")
    /\ ~SendDateDisabled
    /\ onSubmit(componentDetails.parameter_name, Str(fieldValue))
    /\ alertCalls' = <<>>
    /\ UNCHANGED <<fieldValue, selectedValue, isChecked, isValidJson, selectedDate,
                   inputValue, tags>>

\* ChatJsonInput.handleChange
JsonInputChange(text) ==
    /\ Mounts("json_input")
    /\ ~PropsDisabled
    /\ fieldValue' = text
    /\ isValidJson' = (JSONparse(text) # NULL \/ Trim(text) = <<>>)
    /\ alertCalls' = <<>>
    /\ NoSubmit
    /\ UNCHANGED <<selectedValue, isChecked, selectedDate, inputValue, tags>>

\* variant: a text that does not parse is held back
JsonSubmitAllowed_ValidOnly(parseError, submittedValue) == ~parseError

\* ChatJsonInput.handleSubmit: the condition of the final if
JsonSubmitAllowed(parseError, submittedValue) ==
    ~parseError \/ submittedValue.t = "null" \/ submittedValue.t = "string"

\* ChatJsonInput.handleSubmit
JsonInputSubmit ==
    /\ Mounts("json_input")
    /\ ~PropsDisabled
    /\ LET empty == Trim(fieldValue) = <<>>
           parsed == JSONparse(fieldValue)
           parseError == ~empty /\ parsed = NULL
           submittedValue == IF empty THEN JsNull
                             ELSE IF parsed # NULL THEN parsed[1]
                             ELSE Str(fieldValue)
           warned == IF parseError
                     THEN <<Alert("Warning: Submitting potentially invalid JSON string.", <<>>)>>
                     ELSE <<>>
       IN  /\ isValidJson' = ~parseError
           /\ IF JsonSubmitAllowed(parseError, submittedValue)
              THEN /\ onSubmit(componentDetails.parameter_name, submittedValue)
                   /\ alertCalls' = warned
              ELSE /\ NoSubmit
                   /\ alertCalls' = Append(warned, Alert("Please fix invalid JSON.", <<>>))
    /\ UNCHANGED <<fieldValue, selectedValue, isChecked, selectedDate, inputValue, tags>>

\* variant: a date that cannot be formatted submits nothing
DateTimeSubmitted_OnlyValid(date) ==
    IF date # NULL /\ date[1].time # NULL THEN Some(Str(<<toISOString(date[1])>>)) ELSE NULL

\* ChatDateTimePicker.handleChange: what is handed to onSubmit
DateTimeSubmitted(date) ==
    IF date # NULL /\ date[1].time # NULL
    THEN Some(Str(<<toISOString(date[1])>>))
    ELSE Some(JsNull)

\* ChatDateTimePicker.handleChange: react-datepicker reports a new value
DateTimePickerChange(date) ==
    /\ Mounts("datetime_picker")
    /\ ~PropsDisabled
    /\ selectedDate' = date
    /\ alertCalls' = <<>>
    /\ IF DateTimeSubmitted(date) # NULL
       THEN onSubmit(componentDetails.parameter_name, DateTimeSubmitted(date)[1])
       ELSE NoSubmit
    /\ UNCHANGED <<fieldValue, selectedValue, isChecked, isValidJson, inputValue, tags>>

\* ChatTagsInput: item_type = 'string' when the descriptor has none
item_type == IF componentDetails.item_type = NULL THEN "string"
             ELSE componentDetails.item_type[1]

\* ChatTagsInput.handleInputChange: the text of the staging input changes
handleInputChange(text) ==
    /\ Mounts("tags_input")
    /\ ~PropsDisabled
    /\ inputValue' = text
    /\ alertCalls' = <<>>
    /\ NoSubmit
    /\ UNCHANGED <<fieldValue, selectedValue, isChecked, isValidJson, selectedDate, tags>>

\* variant: the token is kept as the text that was typed
processedTag_KeepsText(newTagValue, itemType) == Some(Str(newTagValue))

\* ChatTagsInput.handleKeyDown: the value committed for a token; NULL when the
\* token is turned down
processedTag(newTagValue, itemType) ==
    IF itemType \in {"integer", "number"}
    THEN LET num == parseFloat(newTagValue)
         IN  IF num # NULL THEN Some(Num(num[1])) ELSE NULL
    ELSE Some(Str(newTagValue))

\* variant: the list is not consulted
Includes_Never(list, tag) == FALSE

\* Array.prototype.includes
Includes(list, tag) == \E k \in 1..Len(list) : list[k] = tag

\* variant: the first tag is dropped
WithoutLast_DropsFirst(list) == SubSeq(list, 2, Len(list))

\* tags.slice(0, -1)
WithoutLast(list) == SubSeq(list, 1, Len(list) - 1)

\* tags.filter((_, index) => index !== indexToRemove), positions counted from 1
WithoutIndex(list, indexToRemove) ==
    SubSeq(list, 1, indexToRemove - 1) \o SubSeq(list, indexToRemove + 1, Len(list))

\* ChatTagsInput.handleKeyDown
handleKeyDown(key) ==
    /\ Mounts("tags_input")
    /\ ~PropsDisabled
    /\ IF key \in {"Enter", ",", " "} /\ Trim(inputValue) # <<>>
       THEN LET newTagValue == Trim(inputValue)
                processed == processedTag(newTagValue, item_type)
            IN  IF processed = NULL
                THEN /\ alertCalls' = <<Alert("is not a valid " \o item_type, newTagValue)>>
                     /\ NoSubmit
                     /\ UNCHANGED <<tags, inputValue>>
                ELSE /\ alertCalls' = <<>>
                     /\ IF ~Includes(tags, processed[1])
                        THEN LET newTags == Append(tags, processed[1])
                             IN  /\ tags' = newTags
                                 /\ onSubmit(componentDetails.parameter_name, Arr(newTags))
                        ELSE /\ NoSubmit
                             /\ UNCHANGED tags
                     /\ inputValue' = <<>>
       ELSE IF key = "Backspace" /\ inputValue = <<>> /\ Len(tags) > 0
       THEN LET newTags == WithoutLast(tags)
            IN  /\ tags' = newTags
                /\ onSubmit(componentDetails.parameter_name, Arr(newTags))
                /\ alertCalls' = <<>>
                /\ UNCHANGED inputValue
       ELSE /\ alertCalls' = <<>>
            /\ NoSubmit
            /\ UNCHANGED <<tags, inputValue>>
    /\ UNCHANGED <<fieldValue, selectedValue, isChecked, isValidJson, selectedDate>>

\* variant: the remove button of a tag has no disabled attribute
RemoveButtonDisabled_Never == FALSE

\* ChatTagsInput: the disabled attribute of the remove button of a tag
RemoveButtonDisabled == PropsDisabled

\* ChatTagsInput.removeTag
removeTag(indexToRemove) ==
    /\ Mounts("tags_input")
    /\ ~RemoveButtonDisabled
    /\ indexToRemove \in 1..Len(tags)
    /\ LET newTags == WithoutIndex(tags, indexToRemove)
       IN  /\ tags' = newTags
           /\ onSubmit(componentDetails.parameter_name, Arr(newTags))
    /\ alertCalls' = <<>>
    /\ UNCHANGED <<fieldValue, selectedValue, isChecked, isValidJson, selectedDate,
                   inputValue>>

\* the reply to the submission of the control arrives
ControlReply(r) ==
    /\ ChatResolve(1, r)
    /\ alertCalls' = <<>>
    /\ UNCHANGED <<fieldValue, selectedValue, isChecked, isValidJson, selectedDate,
                   inputValue, tags>>

WidgetNext ==
    \/ \E text \in TextInputTexts : TextInputChange(text)
    \/ TextInputSubmit
    \/ \E option \in Range(componentDetails.options) : DropdownChange(option)
    \/ \E text \in NumberInputTexts : NumberInputChange(text)
    \/ NumberInputSubmit
    \/ CheckboxChange
    \/ \E text \in DateInputTexts : DatePickerChange(text)
    \/ DatePickerSubmit
    \/ \E text \in JsonInputTexts : JsonInputChange(text)
    \/ JsonInputSubmit
    \/ \E date \in PickedDates : DateTimePickerChange(date)
    \/ \E text \in TagInputTexts : handleInputChange(text)
    \/ \E key \in Keys : handleKeyDown(key)
    \/ \E indexToRemove \in 1..Len(tags) : removeTag(indexToRemove)
    \/ \E r \in ControlReplies : ControlReply(r)

WidgetSpec == WidgetInit /\ [][WidgetNext]_vars

\* a handler of the followed control calls props.onSubmit
UserSends == WidgetNext /\ Len(inflight') > Len(inflight)

\* The user keeps at the control: a text the input element can hold is
\* entered at some time, and a handler run that sends, when it can be had
\* again and again, is had.
FairWidgetSpec ==
    /\ WidgetSpec
    /\ SF_vars(UserSends)
    /\ \A text \in DateInputTexts : WF_vars(DatePickerChange(text))
    /\ \A text \in TagInputTexts : WF_vars(handleInputChange(text))

----------------------------------------------------------------------------
(* Derived notions used by the properties *)

Outstanding == Len(inflight) > 0

ParameterOutstanding ==
    \E k \in 1..Len(inflight) : inflight[k].type = "parameter_response"

UserMessages(log) == { i \in 1..Len(log) : log[i].sender = "user" }

Intents(reqs) == { k \in 1..Len(reqs) : reqs[k].type = "intent" }

\* the phase of the conversation, read off the state
phase ==
    IF currentApiOperation # NULL THEN "Collecting"
    ELSE IF UserMessages(messages) # {} THEN "Terminal"
    ELSE "Idle"

\* outcomes of a call that handleUserInput has a branch for
HandledOutcomes ==
    { "none", "pending", "thrown", "null",
      "ui_instruction", "final_message", "error_message" }

InteractiveWidgets == { i \in 1..Len(messages) : WidgetInteractive(i) }

----------------------------------------------------------------------------
(* C1 *)

\* C1: while a parameter request is outstanding the input is locked, no
\* control of the log accepts interaction, and no step adds a further request.
C1_LockedWhileParameterOutstanding ==
    /\ [](ParameterOutstanding =>
            currentInteractionDisabled /\ InteractiveWidgets = {})
    /\ [][ParameterOutstanding => Len(inflight') <= Len(inflight)]_vars

C1_Witness ==
    /\ ParameterOutstanding
    /\ currentInteractionDisabled
    /\ \E i \in 1..Len(messages) : RenderMessage(messages[i]).node = "widget"

----------------------------------------------------------------------------
(* C2 *)

\* C2: at most one chat request (intent or parameter) is outstanding.
C2_AtMostOneOutstanding == Len(inflight) <= 1

C2_Witness ==
    /\ Len(inflight) = 1
    /\ Len(availableOperations) > 0
    /\ \E i \in 1..Len(messages) : RenderMessage(messages[i]).node = "widget"

----------------------------------------------------------------------------
(* C3, C4 *)

LastMessage == messages[Len(messages)]

\* the last resolved call ended in an error: a throw (transport failure,
\* non-2xx, null body), a response type without a branch, or an instruction
\* that renders as a marker only
ErrorOutcome ==
    \/ backendResponse \in {"thrown", "null"}
    \/ backendResponse \notin HandledOutcomes
    \/ /\ backendResponse = "ui_instruction"
       /\ RenderMessage(LastMessage).node \in {"invalid", "unsupported"}

\* C3: once no request is outstanding, a call that ended in an error has left
\* the conversation in Terminal: no bound operation, input unlocked, and the
\* picker of a non-empty catalog enabled.
C3_EveryErrorResolvesToTerminal ==
    (~Outstanding /\ ErrorOutcome) =>
        /\ currentApiOperation = NULL
        /\ ~currentInteractionDisabled
        /\ (Len(availableOperations) > 0 => ~PickerDisabled)

UnexpectedResponsePrompt == "Received an unexpected response."

\* C4: after a response of unrecognised type the log ends with the generic
\* unexpected-response message, the bound operation is cleared and the input
\* is unlocked.
C4_UnrecognizedTypeFailsSafe ==
    (~Outstanding /\ backendResponse \notin HandledOutcomes) =>
        /\ LastMessage.sender = "assistant"
        /\ LastMessage.content = ObjectContent(Some(UnexpectedResponsePrompt), NULL)
        /\ currentApiOperation = NULL
        /\ ~currentInteractionDisabled

----------------------------------------------------------------------------
(* C5 *)

\* C5: from a state with a bound operation or locked input no step appends a
\* user message, sends an intent, or binds another operation.
C5_SelectIgnoredWhenBoundOrLocked ==
    [][(currentApiOperation # NULL \/ currentInteractionDisabled) =>
          /\ UserMessages(messages') = UserMessages(messages)
          /\ Cardinality(Intents(inflight')) <= Cardinality(Intents(inflight))
          /\ currentApiOperation' \in {currentApiOperation, NULL}]_vars

\* an operation is bound, input is unlocked and the catalog offers entries:
\* the lock alone would let the picker through
C5_Witness ==
    /\ mounted
    /\ currentApiOperation # NULL
    /\ ~currentInteractionDisabled /\ ~isAssistantTyping
    /\ Len(availableOperations) > 1
    /\ selectedOpId # ""

----------------------------------------------------------------------------
(* C6, C7 *)

\* C6: at most one control of the log is interactive, and it belongs to the
\* message appended last.
C6_AtMostOneInteractiveWidget ==
    /\ Cardinality(InteractiveWidgets) <= 1
    /\ \A i \in InteractiveWidgets : i = Len(messages)

\* C7: every parameter_response request is outstanding under a bound
\* operation: nothing is sent for a flow that has reached Terminal.
C7_ParameterOnlyWhileBound ==
    ParameterOutstanding => currentApiOperation # NULL

----------------------------------------------------------------------------
(* C8 *)

\* C8 as stated: input is locked exactly while a request is outstanding or
\* the phase is Terminal.
C8_LockedIffOutstandingOrTerminal ==
    currentInteractionDisabled <=> (Outstanding \/ phase = "Terminal")

\* C8 amended: input is locked exactly while a request is outstanding or
\* after a response of unrecognised type; Terminal reached by a reply or a
\* failure is unlocked.
C8_LockedIffOutstandingOrUnhandled ==
    currentInteractionDisabled <=>
        (Outstanding \/ backendResponse \notin HandledOutcomes)

C8_Witness ==
    /\ phase = "Terminal"
    /\ ~Outstanding
    /\ backendResponse \in {"final_message", "error_message", "thrown"}
    /\ ~currentInteractionDisabled

----------------------------------------------------------------------------
(* C9 *)

\* what an accepted selection of op does, per the claim
SelectEffect(op) ==
    /\ messages' = Append(messages, [sender |-> "user",
                                     content |-> StringContent(op.summary)])
    /\ currentApiOperation' = Some([path |-> op.path, method |-> op.method])
    /\ currentInteractionDisabled'
    /\ Len(inflight') = Len(inflight) + 1
    /\ SubSeq(inflight', 1, Len(inflight)) = inflight
    /\ LET sent == inflight'[Len(inflight')]
       IN  /\ sent.type = "intent"
           /\ sent.intent_string = Some(op.summary)
           /\ sent.target_api_path = Some(op.path)
           /\ sent.target_api_method = Some(op.method)

\* C9 as stated: every accepted selection appends one user message with the
\* summary, binds op, locks input and sends one intent with op's path and method.
C9_SelectSendsIntent ==
    [][\A op \in Range(availableOperations) :
          SelectOperation(op) => SelectEffect(op)]_vars

\* C9 amended: the same for every op that has a path and a method, from Idle
\* and from Terminal alike.
C9_SelectOfMappedOperationSendsIntent ==
    [][\A op \in Range(availableOperations) :
          (SelectOperation(op) /\ op.path # "" /\ op.method # "")
              => SelectEffect(op)]_vars

\* a second flow has been started from Terminal and its intent is on its way
C9_Witness ==
    /\ Cardinality(UserMessages(messages)) = 2
    /\ \E i \in 1..Len(messages) :
          messages[i].content = ObjectContent(Some("Pet created"), NULL)
    /\ Len(inflight) = 1
    /\ inflight[1].type = "intent"
    /\ currentApiOperation # NULL
    /\ currentInteractionDisabled

----------------------------------------------------------------------------
(* C10 *)

\* C10: while a request is outstanding the input is locked and the user
\* message of an intent is already in the log; the log grows and the input
\* unlocks only in a step that resolves a request; and no selection or
\* submission (user message, further request) happens in between.
C10_SideEffectsOrdered ==
    /\ [](Outstanding =>
            /\ currentInteractionDisabled
            /\ \A k \in Intents(inflight) :
                  \E i \in UserMessages(messages) :
                      messages[i].content.prompt = inflight[k].intent_string)
    /\ [][Outstanding =>
            /\ ((messages' # messages \/ ~currentInteractionDisabled')
                   => Len(inflight') < Len(inflight))
            /\ UserMessages(messages') = UserMessages(messages)
            /\ Len(inflight') <= Len(inflight)]_vars

\* the reply of a round trip has been appended and the input unlocked
C10_Witness ==
    /\ ~Outstanding
    /\ backendResponse = "ui_instruction"
    /\ ~currentInteractionDisabled
    /\ LastMessage.sender = "assistant"
    /\ UserMessages(messages) # {}

----------------------------------------------------------------------------
(* C11, C12, C13: what each kind of reply does to a flow in Collecting *)

Parsed(r) == r.net = "ok" /\ ResponseOk(r) /\ r.status # 204 /\ r.json

TerminalReply(r) ==
    Parsed(r) /\ r.body.type \in {"final_message", "error_message"}

InstructionReply(r) == Parsed(r) /\ r.body.type = "ui_instruction"

TransportFailure(r) == r.net = "failed" \/ ~ResponseOk(r)

AssistantMessage(content) == [sender |-> "assistant", content |-> content]

\* C11: in Collecting, a final_message or error_message reply appends one
\* assistant message with the returned text and no widget, clears the bound
\* operation, unlocks input and leaves the picker enabled.
C11_TerminalReplyEndsFlow ==
    [][\A i \in 1..Len(inflight), r \in ChatResponses :
          (ChatResolve(i, r) /\ TerminalReply(r) /\ currentApiOperation # NULL) =>
              /\ messages' = Append(messages,
                     AssistantMessage(ObjectContent(Some(r.body.text), NULL)))
              /\ currentApiOperation' = NULL
              /\ ~currentInteractionDisabled'
              /\ ~PickerDisabled']_vars

\* Scenario C: the first flow has ended with "Pet created"
C11_Witness ==
    /\ Len(messages) = 3
    /\ messages[2].sender = "user"
    /\ LastMessage = AssistantMessage(ObjectContent(Some("Pet created"), NULL))
    /\ backendResponse = "final_message"
    /\ currentApiOperation = NULL
    /\ ~PickerDisabled

\* C12: in Collecting, a network failure or a non-2xx response appends one
\* assistant message "Error: <detail>", clears the bound operation, unlocks
\* input (Terminal) and leaves no request behind: nothing is retried.
C12_TransportFailureEndsFlow ==
    [][\A i \in 1..Len(inflight), r \in ChatResponses :
          (ChatResolve(i, r) /\ TransportFailure(r) /\ currentApiOperation # NULL) =>
              /\ messages' = Append(messages,
                     AssistantMessage(ObjectContent(
                         Some("Error: " \o fetchApi(r).message), NULL)))
              /\ currentApiOperation' = NULL
              /\ ~currentInteractionDisabled'
              /\ phase' = "Terminal"
              /\ Len(inflight') = Len(inflight) - 1]_vars

C12_Witness ==
    /\ Len(messages) = 3
    /\ messages[2].sender = "user"
    /\ LastMessage = AssistantMessage(ObjectContent(Some("Error: API Error: 500"), NULL))
    /\ backendResponse = "thrown"
    /\ phase = "Terminal"
    /\ ~Outstanding

\* C13: in Collecting, a ui_instruction reply appends one assistant message
\* holding the returned instruction, unlocks input, and leaves the operation
\* bound as it was.
C13_InstructionKeepsCollecting ==
    [][\A i \in 1..Len(inflight), r \in ChatResponses :
          (ChatResolve(i, r) /\ InstructionReply(r) /\ currentApiOperation # NULL) =>
              /\ messages' = Append(messages, AssistantMessage(r.body.data))
              /\ ~currentInteractionDisabled'
              /\ currentApiOperation' = currentApiOperation
              /\ phase' = "Collecting"]_vars

C13_Witness ==
    /\ backendResponse = "ui_instruction"
    /\ ~Outstanding
    /\ LastMessage = AssistantMessage(ObjectContent(Some("What is the name?"), Some(TextWidget)))
    /\ phase = "Collecting"
    /\ ~currentInteractionDisabled

----------------------------------------------------------------------------
(* C14 *)

\* C14: selecting an operation without a path or without a method sends no
\* request and enters no state with one outstanding: the user message and
\* one assistant error message are appended, input ends unlocked and no
\* operation is bound.
C14_UnmappedSelectionShortCircuits ==
    [][\A op \in Range(availableOperations) :
          (SelectOperation(op) /\ (op.path = "" \/ op.method = "")) =>
              /\ inflight' = inflight
              /\ ~Outstanding'
              /\ ~isAssistantTyping'
              /\ Len(messages') = Len(messages) + 2
              /\ SubSeq(messages', 1, Len(messages)) = messages
              /\ messages'[Len(messages) + 1].sender = "user"
              /\ LastMessage'.sender = "assistant"
              /\ RenderMessage(LastMessage').node = "prompt"
              /\ ~currentInteractionDisabled'
              /\ currentApiOperation' = NULL]_vars

C14_Witness ==
    /\ LastMessage = AssistantMessage(ObjectContent(Some(UnmappedPrompt("Vague")), NULL))
    /\ messages[Len(messages) - 1].content = StringContent("Vague")
    /\ ~Outstanding
    /\ currentApiOperation = NULL
    /\ ~currentInteractionDisabled

----------------------------------------------------------------------------
(* C15 *)

\* C15: the log is append-only: every step keeps the messages it had, in
\* place and unchanged, and adds new ones at the end only.
C15_LogAppendOnly ==
    [][/\ Len(messages') >= Len(messages)
       /\ SubSeq(messages', 1, Len(messages)) = messages]_vars

C15_Witness ==
    /\ Len(messages) >= 4
    /\ UserMessages(messages) # {}
    /\ \E i \in 1..Len(messages) : RenderMessage(messages[i]).node = "widget"

----------------------------------------------------------------------------
(* C16 *)

\* C16: a widget submission of (parameterName, value) sends exactly one
\* parameter_response request with that name and value, locks input, appends
\* no message and leaves the bound operation as it was.
C16_SubmitSendsParameterResponse ==
    [][\A i \in 1..Len(messages), value \in TextValues :
          WidgetSubmit(i, value) =>
              /\ ~currentInteractionDisabled
              /\ Len(inflight') = Len(inflight) + 1
              /\ SubSeq(inflight', 1, Len(inflight)) = inflight
              /\ LET sent == inflight'[Len(inflight')]
                 IN  /\ sent.type = "parameter_response"
                     /\ sent.parameter_name =
                            Some(messages[i].content.ui_component[1].parameter_name)
                     /\ sent.parameter_value = Some(value)
              /\ currentInteractionDisabled'
              /\ messages' = messages
              /\ currentApiOperation' = currentApiOperation]_vars

\* Scenario B: name = "Rex" is on its way
C16_Witness ==
    /\ Len(inflight) = 1
    /\ inflight[1].type = "parameter_response"
    /\ inflight[1].parameter_name = Some("name")
    /\ inflight[1].parameter_value = Some("Rex")
    /\ currentInteractionDisabled
    /\ currentApiOperation # NULL

----------------------------------------------------------------------------
(* C17 *)

\* C17: once the catalog fetch has failed, the failure is shown as an
\* assistant message of the log, the catalog is empty, the selection
\* control is shown disabled, and the fetch is not pending again.
C17_CatalogFailureSurfaced ==
    (opsFetch = "done" /\ fetchError # NULL) =>
        /\ mounted
        /\ LastMessage = AssistantMessage(ObjectContent(fetchError, NULL))
        /\ RenderMessage(LastMessage).node = "prompt"
        /\ availableOperations = <<>>
        /\ PickerDisabled

----------------------------------------------------------------------------
(* C18 *)

LastUserMessage ==
    messages[CHOOSE i \in UserMessages(messages) :
                 \A j \in UserMessages(messages) : j <= i]

\* C18: while an operation is bound or a request is outstanding the picker
\* is disabled; it displays the catalog entry that has the bound operation's
\* path and method, which is the entry the user selected, and the
\* placeholder when no operation is bound.
C18_PickerMirrorsBoundOperation ==
    (currentApiOperation # NULL \/ Outstanding) =>
        /\ PickerDisabled
        /\ currentApiOperation = NULL => selectedOpId = ""
        /\ currentApiOperation # NULL =>
              \E e \in Range(availableOperations) :
                  /\ e.id = selectedOpId
                  /\ e.path = currentApiOperation[1].path
                  /\ e.method = currentApiOperation[1].method
                  /\ LastUserMessage.content = StringContent(e.summary)

\* the second entry of the catalog is bound and displayed
C18_Witness ==
    /\ currentApiOperation = Some([path |-> Op2.path, method |-> Op2.method])
    /\ selectedOpId = Op2.id
    /\ PickerDisabled
    /\ ~Outstanding

----------------------------------------------------------------------------
(* C19 *)

ScenarioE == HttpOk(422, Body("", NoData, "", ArrayDetail(<<PriorityEntry>>)))

\* the text of the assistant message a step has appended
AppendedText == LastMessage'.content.prompt

\* C19 as stated: the surfaced message is the detail text itself; for
\* Scenario E it equals "body.priority: must be >=1".
C19_SurfacedMessageIsDetail ==
    [][\A i \in 1..Len(inflight) :
          /\ ChatResolve(i, ScenarioE) =>
                AppendedText = Some("body.priority: must be >=1")
          /\ ChatResolve(i, HttpOk(422, Body("", NoData, "",
                                StringDetail("priority must be >=1")))) =>
                AppendedText = Some("priority must be >=1")]_vars

\* C19 amended: the surfaced assistant message is "Error: " followed by the
\* detail text: a string detail verbatim, an array of {loc, msg} entries as
\* loc joined by '.', then ': ' and msg, the entries joined by '; '.
C19_SurfacedMessageIsErrorPlusDetail ==
    [][\A i \in 1..Len(inflight) :
          /\ ChatResolve(i, ScenarioE) =>
                AppendedText = Some("Error: body.priority: must be >=1")
          /\ ChatResolve(i, HttpOk(422, Body("", NoData, "",
                                StringDetail("priority must be >=1")))) =>
                AppendedText = Some("Error: priority must be >=1")
          /\ ChatResolve(i, HttpOk(422, Body("", NoData, "",
                                ArrayDetail(<<PriorityEntry, NameEntry>>)))) =>
                AppendedText =
                    Some("Error: body.priority: must be >=1; body.name: field required")]_vars

C19_Witness ==
    /\ backendResponse = "thrown"
    /\ LastMessage.content.prompt = Some("Error: body.priority: must be >=1")
    /\ ~Outstanding

----------------------------------------------------------------------------
(* C20 *)

\* the content has neither a usable prompt nor a widget
Malformed(content) == ~Truthy(content.prompt) /\ content.ui_component = NULL

\* C20: every assistant message without usable prompt and widget, a null
\* or missing payload included, is rendered as the malformed-message
\* marker; appending it keeps the bound operation and the phase.
C20_MalformedShowsMarker ==
    /\ [](\A i \in 1..Len(messages) :
            (messages[i].sender = "assistant" /\ Malformed(messages[i].content))
                => RenderMessage(messages[i]).node = "invalid")
    /\ [][\A i \in 1..Len(inflight), r \in ChatResponses :
            (ChatResolve(i, r) /\ InstructionReply(r) /\ Malformed(r.body.data)) =>
                /\ currentApiOperation' = currentApiOperation
                /\ phase' = phase]_vars

----------------------------------------------------------------------------
(* C21 *)

\* an instruction payload whose ui_component names a kind outside the switch
UnknownKind(content) ==
    /\ content.kind = "object"
    /\ content.ui_component # NULL
    /\ content.ui_component[1].type \notin KnownWidgetTypes

\* what a bubble shows apart from the lock of its control
Shown(n) == [node |-> n.node, prompt |-> n.prompt, input |-> n.input, marker |-> n.marker]

\* C21: an assistant message whose widget kind is unknown renders the
\* unsupported-widget marker carrying the unknown tag, together with its
\* prompt if it has one, and no interactive control; appending such a message
\* leaves what every other message of the log shows as it was.
C21_UnknownKindShowsMarker ==
    /\ [](\A i \in 1..Len(messages) :
            (messages[i].sender = "assistant" /\ UnknownKind(messages[i].content))
                => LET n == RenderMessage(messages[i])
                       content == messages[i].content
                   IN  /\ n.node = "unsupported"
                       /\ n.marker = Some(UnsupportedMarker(content.ui_component[1].type))
                       /\ n.prompt = (IF Truthy(content.prompt) THEN content.prompt ELSE NULL)
                       /\ n.input = NULL
                       /\ ~WidgetInteractive(i))
    /\ [][\A i \in 1..Len(inflight), r \in ChatResponses :
            (/\ ChatResolve(i, r)
             /\ ReplyOf(fetchApi(r)) # NULL
             /\ UnknownKind(ReplyOf(fetchApi(r))[1]))
                => /\ Len(messages') = Len(messages) + 1
                   /\ \A j \in 1..Len(messages) :
                          /\ messages'[j] = messages[j]
                          /\ Shown(RenderMessage(messages[j]))'
                                 = Shown(RenderMessage(messages[j]))]_vars

\* an unknown kind with its prompt and one without are both in the log, after
\* a message that shows a control
C21_Witness ==
    \E i, j, k \in 1..Len(messages) :
        /\ i < j /\ j # k /\ i < k
        /\ RenderMessage(messages[i]).node = "widget"
        /\ messages[j].sender = "assistant" /\ UnknownKind(messages[j].content)
        /\ Truthy(messages[j].content.prompt)
        /\ messages[k].sender = "assistant" /\ UnknownKind(messages[k].content)
        /\ ~Truthy(messages[k].content.prompt)

----------------------------------------------------------------------------
(* Notions used by the properties of the controls (WidgetSpec) *)

\* the step calls props.onSubmit exactly once, with the control's parameter
\* name and the value v: one parameter request carrying v is sent
Submitted(v) ==
    inflight' = Append(inflight,
                       requestBody(ParameterInput(componentDetails.parameter_name, v)))

\* the step does not call props.onSubmit
NothingSubmitted == inflight' = inflight

\* the local state of the followed control
controlState ==
    <<fieldValue, selectedValue, isChecked, isValidJson, selectedDate, inputValue, tags>>

\* the value carried by the request sent last
LastSubmitted == inflight[Len(inflight)].parameter_value[1]

\* the followed control has just submitted and awaits the reply
AwaitingReply(type) ==
    /\ Mounts(type)
    /\ PropsDisabled
    /\ inflight # <<>>
    /\ inflight[Len(inflight)].parameter_name = Some(componentDetails.parameter_name)

Delimiters == {"Enter", ",", " "}

NumericItems == item_type \in {"integer", "number"}

----------------------------------------------------------------------------
(* C22 *)

\* C22: while disabled is true no control of any kind accepts interaction or
\* calls props.onSubmit: a step taken while the lock is set leaves the local
\* state of the control as it was, raises no alert and sends no request.
C22_DisabledControlIsInert ==
    [][PropsDisabled
          => /\ controlState' = controlState
             /\ alertCalls' = <<>>
             /\ Len(inflight') <= Len(inflight)]_vars

\* a locked tag list that shows tags with their remove buttons
C22_Witness ==
    /\ AwaitingReply("tags_input")
    /\ Len(tags) >= 2

----------------------------------------------------------------------------
(* C23 *)

\* C23 as stated: with a numeric item type a delimiter key on a trimmed token
\* that parses to a number commits the token as a number and submits the
\* whole updated list; on a token that does not parse the add is turned down
\* with a warning, the list is unchanged and nothing is submitted.
C23_NumericTokenCommitted ==
    [][\A key \in Delimiters :
          (handleKeyDown(key) /\ NumericItems /\ Trim(inputValue) # <<>>)
              => LET num == parseFloat(Trim(inputValue))
                 IN  IF num # NULL
                     THEN /\ tags' = Append(tags, Num(num[1]))
                          /\ Submitted(Arr(tags'))
                     ELSE /\ alertCalls' # <<>>
                          /\ tags' = tags
                          /\ NothingSubmitted]_vars

\* C23 amended: the token is committed and the list submitted when the number
\* it parses to is not in the list yet.
C23_NewNumericTokenCommitted ==
    [][\A key \in Delimiters :
          (handleKeyDown(key) /\ NumericItems /\ Trim(inputValue) # <<>>)
              => LET num == parseFloat(Trim(inputValue))
                 IN  IF num # NULL
                     THEN Num(num[1]) \notin Range(tags)
                             => /\ tags' = Append(tags, Num(num[1]))
                                /\ Submitted(Arr(tags'))
                                /\ alertCalls' = <<>>
                     ELSE /\ alertCalls' # <<>>
                          /\ tags' = tags
                          /\ NothingSubmitted]_vars

\* the list [12] has just been submitted by a numeric tag list that had no tags
C23_Witness ==
    /\ AwaitingReply("tags_input")
    /\ NumericItems
    /\ componentDetails.default = NULL
    /\ tags = <<Num(12)>>
    /\ LastSubmitted = Arr(<<Num(12)>>)
    /\ inputValue = <<>>

----------------------------------------------------------------------------
(* C24 *)

\* C24: when an add is turned down because the token is not a number, the
\* token is discarded: the staging input is empty afterwards.
C24_RejectedTokenDiscarded ==
    [][\A key \in Delimiters :
          (/\ handleKeyDown(key)
           /\ Trim(inputValue) # <<>>
           /\ processedTag(Trim(inputValue), item_type) = NULL)
              => inputValue' = <<>>]_vars

----------------------------------------------------------------------------
(* C25 *)

NoDuplicates(list) == \A j, k \in 1..Len(list) : list[j] = list[k] => j = k

\* C25: adding a token whose coerced value is already in the list changes
\* nothing and submits nothing (the staging input is cleared); the list,
\* which starts from a default without duplicates, never holds a duplicate.
C25_DuplicatesIgnored ==
    /\ [](Mounts("tags_input") => NoDuplicates(tags))
    /\ [][\A key \in Delimiters :
            (/\ handleKeyDown(key)
             /\ Trim(inputValue) # <<>>
             /\ processedTag(Trim(inputValue), item_type) # NULL
             /\ processedTag(Trim(inputValue), item_type)[1] \in Range(tags))
                => /\ tags' = tags
                   /\ NothingSubmitted
                   /\ inputValue' = <<>>]_vars

\* tags were added by the user, and the token in the staging input is the
\* text of one of them
C25_Witness ==
    /\ Mounts("tags_input")
    /\ ~PropsDisabled
    /\ componentDetails.default = NULL
    /\ Len(tags) >= 2
    /\ Trim(inputValue) # <<>>
    /\ processedTag(Trim(inputValue), item_type) # NULL
    /\ processedTag(Trim(inputValue), item_type)[1] \in Range(tags)

----------------------------------------------------------------------------
(* C26 *)

\* C26: Backspace on an empty staging input with at least one tag removes
\* exactly the last tag; the remove button of a tag removes exactly that tag
\* and keeps the order of the others; every change of the list submits the
\* whole updated list at once; Backspace with no tags or with a non-empty
\* staging input submits nothing.
C26_RemovalSubmitsUpdatedList ==
    /\ [][(handleKeyDown("Backspace") /\ inputValue = <<>> /\ Len(tags) > 0)
            => /\ Len(tags') = Len(tags) - 1
               /\ \A k \in 1..Len(tags') : tags'[k] = tags[k]
               /\ Submitted(Arr(tags'))]_vars
    /\ [][\A indexToRemove \in 1..Len(tags) :
            removeTag(indexToRemove)
                => /\ Len(tags') = Len(tags) - 1
                   /\ \A k \in 1..Len(tags') :
                          tags'[k] = IF k < indexToRemove THEN tags[k] ELSE tags[k + 1]
                   /\ Submitted(Arr(tags'))]_vars
    /\ [][tags' # tags => Submitted(Arr(tags'))]_vars
    /\ [][(handleKeyDown("Backspace") /\ (inputValue # <<>> \/ Len(tags) = 0))
            => (tags' = tags /\ NothingSubmitted)]_vars

\* a tag of the default list has just been removed and the rest submitted
C26_Witness ==
    /\ AwaitingReply("tags_input")
    /\ componentDetails.default # NULL
    /\ Len(componentDetails.default[1].items) = 2
    /\ tags = <<componentDetails.default[1].items[1]>>
    /\ LastSubmitted = Arr(tags)

----------------------------------------------------------------------------
(* C27 *)

\* C27: every explicit submit of the structured-input control calls
\* props.onSubmit exactly once and is never held back: with null for an
\* empty or whitespace-only text, with the parsed document for a text that
\* parses, with the raw text, after a warning, for a text that does not.
C27_JsonSubmitNeverBlocked ==
    [][JsonInputSubmit
          => IF Trim(fieldValue) = <<>>
             THEN Submitted(JsNull) /\ alertCalls' = <<>>
             ELSE IF JSONparse(fieldValue) # NULL
             THEN Submitted(JSONparse(fieldValue)[1]) /\ alertCalls' = <<>>
             ELSE Submitted(Str(fieldValue)) /\ Len(alertCalls') = 1]_vars

\* a text that does not parse has just been submitted raw, after the warning
C27_Witness ==
    /\ AwaitingReply("json_input")
    /\ JSONparse(fieldValue) = NULL
    /\ Trim(fieldValue) # <<>>
    /\ LastSubmitted = Str(fieldValue)
    /\ Len(alertCalls) = 1
    /\ ~isValidJson

----------------------------------------------------------------------------
(* C28 *)

\* C28: every change of the selection of the single-select control to a
\* non-empty value submits that value at once, exactly once, as the raw
\* string; a change to an empty value submits nothing.
C28_SelectionSubmitsRawString ==
    [][\A option \in Range(componentDetails.options) :
          DropdownChange(option)
              => /\ selectedValue' = option
                 /\ IF option # <<>> THEN Submitted(Str(option)) ELSE NothingSubmitted]_vars

\* another option than the one first shown has just been submitted
C28_Witness ==
    /\ AwaitingReply("dropdown")
    /\ selectedValue # <<>>
    /\ selectedValue # componentDetails.options[1]
    /\ LastSubmitted = Str(selectedValue)

----------------------------------------------------------------------------
(* C29 *)

\* C29: an explicit submit of the number control always calls props.onSubmit
\* exactly once: with the number when the text parses to one, with the raw
\* text unchanged (the empty text included) when it does not.
C29_NumberSubmitNeverBlocked ==
    [][NumberInputSubmit
          => LET num == parseFloat(fieldValue)
             IN  IF num # NULL THEN Submitted(Num(num[1]))
                 ELSE Submitted(Str(fieldValue))]_vars

\* the empty text has just been submitted as it is
C29_Witness ==
    /\ AwaitingReply("number_input")
    /\ fieldValue = <<>>
    /\ LastSubmitted = Str(<<>>)

----------------------------------------------------------------------------
(* C30 *)

\* C30: every change of the value of the date-time control calls
\* props.onSubmit exactly once, with no submit step of its own: with the
\* normalized absolute-instant string when a valid date was picked, with null
\* when the value was cleared or cannot be normalized.
C30_DateTimeChangeSubmits ==
    [][\A date \in PickedDates :
          DateTimePickerChange(date)
              => /\ selectedDate' = date
                 /\ IF date # NULL /\ date[1] # InvalidDate
                    THEN Submitted(Str(<<toISOString(date[1])>>))
                    ELSE Submitted(JsNull)]_vars

\* the instant picked on the second day has just been submitted
C30_Witness ==
    /\ AwaitingReply("datetime_picker")
    /\ selectedDate = Some(Date(24 * 60 + 65))
    /\ LastSubmitted = Str(<<"1970-01-02T01:05:00.000Z">>)

----------------------------------------------------------------------------
(* C32 *)

NoContent(r) == r.net = "ok" /\ r.status = 204

\* what a reply leaves behind apart from the log
AfterReply == <<currentApiOperation, currentInteractionDisabled, isAssistantTyping,
                Len(inflight)>>

\* C32: a chat request answered with HTTP 204 comes back from fetchApi as a
\* null result and never leaves the conversation locked: one assistant
\* message "Error: ..." is appended, the bound operation is cleared and input
\* is unlocked, which is what a transport failure leaves behind.
C32_NoContentEndsFlow ==
    [][\A i \in 1..Len(inflight), r \in ChatResponses :
          (ChatResolve(i, r) /\ NoContent(r)) =>
              /\ fetchApi(r) = Return(NULL)
              /\ messages' = Append(messages,
                     AssistantMessage(ObjectContent(
                         Some("Error: " \o ErrorMessage(fetchApi(r))), NULL)))
              /\ currentApiOperation' = NULL
              /\ ~currentInteractionDisabled'
              /\ ~isAssistantTyping'
              /\ Len(inflight') = Len(inflight) - 1
              /\ ResponseBranch(fetchApi(r)) = ResponseBranch(fetchApi(NetworkFailure))
              /\ AfterReply' = <<OperationAfter("catch", currentApiOperation),
                                 DisabledAfter("catch", currentInteractionDisabled),
                                 FALSE, Len(inflight) - 1>>]_vars

\* the reply to a parameter submission was a 204: the error is the last
\* message, nothing is bound, input is unlocked
C32_Witness ==
    /\ backendResponse = "null"
    /\ \E k \in 1..Len(messages) : RenderMessage(messages[k]).node = "widget"
    /\ LastMessage = AssistantMessage(ObjectContent(
           Some("Error: Cannot read properties of null (reading 'type')"), NULL))
    /\ currentApiOperation = NULL
    /\ ~currentInteractionDisabled
    /\ ~Outstanding

----------------------------------------------------------------------------
(* C33 *)

\* the catalog is empty: the fetch is still on its way, failed, or returned
\* an empty list
CatalogEmpty == Len(availableOperations) = 0

\* C33: no chat request is sent before the catalog fetch has resolved with a
\* non-empty list: while the catalog is empty the picker is disabled, the log
\* shows no control, no request is or was outstanding, and the conversation
\* is Idle with no bound operation.
C33_NoRequestBeforeCatalog ==
    /\ [](CatalogEmpty
            => /\ PickerDisabled
               /\ \A i \in 1..Len(messages) : RenderMessage(messages[i]).node # "widget"
               /\ inflight = <<>>
               /\ backendResponse = "none"
               /\ currentApiOperation = NULL
               /\ phase = "Idle")
    /\ [][Len(inflight') > Len(inflight)
            => (opsFetch = "done" /\ ~CatalogEmpty /\ fetchError = NULL)]_vars

\* the catalog fetch has resolved with an empty list and the component is
\* still rendered
C33_Witness ==
    /\ opsFetch = "done"
    /\ CatalogEmpty
    /\ fetchError = NULL
    /\ mounted
    /\ PickerDisabled
    /\ ~isAssistantTyping /\ ~currentInteractionDisabled

----------------------------------------------------------------------------
(* C31 *)

\* the flow is Collecting, input is unlocked, and the latest instruction
\* shows a control of a known kind
PendingInput ==
    /\ mounted
    /\ phase = "Collecting"
    /\ ~currentInteractionDisabled /\ ~isAssistantTyping
    /\ RenderMessage(LastMessage).node = "widget"

\* C31: a pending request for input can be answered: from a state that is
\* Collecting and unlocked, with the latest instruction showing a control of
\* a known kind (a single-select with one option included), the user's
\* actions on that control lead to a parameter request being sent.
C31_PendingInputCanBeAnswered == PendingInput ~> ParameterOutstanding

====
